---- MODULE Spec2Model ----
(***************************************************************************)
(* BIP0038 non-ec-multiply encryption and decryption of a private key,     *)
(* steembase/bip38.py.                                                     *)
(*                                                                         *)
(* Byte strings are sequences over 0..255, hexadecimal text is a sequence  *)
(* of digits 0..15, a Python int is its hexadecimal digits without leading *)
(* zeros (arbitrary precision).  The library primitives (SHA-256, scrypt,  *)
(* AES-256-ECB) are replaced by small deterministic functions that keep    *)
(* the properties the module relies on: AES is a keyed permutation of a    *)
(* 16-byte block that refuses partial blocks, scrypt keys its HMAC with    *)
(* the passphrase (zero padded to the HMAC block), SHA-256 is a digest of  *)
(* 32 bytes.                                                               *)
(***************************************************************************)
EXTENDS Integers, Sequences, FiniteSets, TLC

\* ---- bounds of the model ------------------------------------------------
MaxKey == 1
MaxPassLen == 1
MaxExtra == 1
MaxCalls == 3

VARIABLES
    SCRYPT_MODULE,  \* the module global SCRYPT_MODULE
    scrypt,         \* the module the name `scrypt` is bound to
    mstate,         \* "start", "loaded" or "ImportError"
    frame,          \* the locals and the outcome of the call in progress
    origin,         \* how the input of the decrypt in progress was made
    watched,        \* a completed call kept for comparison
    last,           \* the outcome of the same call made again
    calls           \* number of calls completed

vars == <<SCRYPT_MODULE, scrypt, mstate, frame, origin, watched, last, calls>>

\* ---- sequences, Python slices --------------------------------------------
Min(u, v) == IF u < v THEN u ELSE v
Max(u, v) == IF u > v THEN u ELSE v
Zeros(cnt) == [i \in 1..cnt |-> 0]

\* s[a:b] for a >= 0, b >= 0 (out-of-range bounds are clamped)
Slice(sq, lo, hi) == SubSeq(sq, lo + 1, Min(hi, Len(sq)))
\* s[a:]
SliceFrom(sq, lo) == Slice(sq, lo, Len(sq))
\* s[a:-k]
SliceDropLast(sq, lo, cnt) == Slice(sq, lo, Max(0, Len(sq) - cnt))

\* ---- Python int, '%x' formatting, hexlify / unhexlify --------------------
XorNib(u, v) ==
    LET bit(x, w) == (x \div w) % 2
    IN  ((bit(u, 1) + bit(v, 1)) % 2)
        + 2 * ((bit(u, 2) + bit(v, 2)) % 2)
        + 4 * ((bit(u, 4) + bit(v, 4)) % 2)
        + 8 * ((bit(u, 8) + bit(v, 8)) % 2)

\* the digits of a hex text from its first non-zero digit on
StripZeros(sq) ==
    LET nz == {i \in 1..Len(sq) : sq[i] # 0}
    IN  IF nz = {} THEN <<>>
        ELSE SubSeq(sq, CHOOSE i \in nz : \A j \in nz : i <= j, Len(sq))

\* int(s, 16) of a non-empty hex text
IntFromHex(sq) == StripZeros(sq)

\* x ^ y on Python ints
IntXor(u, v) ==
    LET len == Max(Len(u), Len(v))
        pu == Zeros(len - Len(u)) \o u
        pv == Zeros(len - Len(v)) \o v
    IN  StripZeros([i \in 1..len |-> XorNib(pu[i], pv[i])])

\* '%0.<w>x' % n and '%0<w>x' % n : at least w digits, zero padded
FormatHexNoPad(num, width) == IF num = <<>> THEN <<0>> ELSE num
FormatHex(num, width) ==
    LET digs == IF num = <<>> THEN <<0>> ELSE num
    IN  Zeros(Max(0, width - Len(digs))) \o digs

hexlify(bs) ==
    [i \in 1..(2 * Len(bs)) |->
        IF i % 2 = 1 THEN bs[(i + 1) \div 2] \div 16 ELSE bs[i \div 2] % 16]

\* unhexlify of an even-length hex text (odd length raises binascii.Error)
unhexlify(hx) == [i \in 1..(Len(hx) \div 2) |-> 16 * hx[2 * i - 1] + hx[2 * i]]

Ok(v) == [exc |-> "none", val |-> v]
Err(err) == [exc |-> err, val |-> <<>>]

\* ---- library primitives ---------------------------------------------------
\* a 16-bit digest of msg[lo..hi] that depends on every byte and its place
RECURSIVE MixRange(_, _, _)
MixRange(msg, lo, hi) ==
    IF lo > hi THEN 1
    ELSE IF lo = hi THEN (msg[lo] * 7 + lo * 13 + 5) % 65521
    ELSE (MixRange(msg, lo, (lo + hi) \div 2) * 131
          + MixRange(msg, ((lo + hi) \div 2) + 1, hi) * 31 + (hi - lo)) % 65521

Mix(msg, idx, acc) == (MixRange(msg, idx, Len(msg)) * 17 + acc * 257 + Len(msg)) % 65521

\* hashlib.sha256(m).digest()
Sha256(msg) ==
    LET st == Mix(msg, 1, 7)
    IN  [i \in 1..32 |->
            IF i = 1 THEN st % 256
            ELSE IF i = 2 THEN st \div 256
            ELSE ((st + i) * (2 * i + 1) + (st \div 256)) % 256]

\* the key HMAC-SHA256 uses for a password: hashed when longer than the
\* 64-byte block, then zero padded to the block
HmacKey(password) ==
    LET hk == IF Len(password) > 64 THEN Sha256(password) ELSE password
    IN  hk \o Zeros(64 - Len(hk))

\* scrypt.hash(password, salt, N, r, p) / pylibscrypt.scrypt(...): 64 bytes
ScryptKDF(password, saltbytes, costN, costR, costP) ==
    LET seed == Mix(saltbytes, 1, Mix(HmacKey(password), 1, (costN + costR + costP) % 65521))
    IN  [i \in 1..64 |-> ((seed + i) * (2 * i + 1) + (seed \div 256)) % 256]

\* Cipher(AES(key), ECB()).encryptor(): update(data) + finalize()
EcbEncrypt(aeskey, data) ==
    IF Len(data) % 16 # 0 THEN Err("ValueError")
    ELSE Ok([i \in 1..Len(data) |->
            LET blk == (i - 1) \div 16
                pos == (i - 1) % 16
            IN  (data[blk * 16 + ((pos + 1) % 16) + 1]
                    + aeskey[pos + 1] + aeskey[pos + 17]) % 256])

\* Cipher(AES(key), ECB()).decryptor(): update(data) + finalize()
EcbDecrypt(aeskey, data) ==
    IF Len(data) % 16 # 0 THEN Err("ValueError")
    ELSE Ok([j \in 1..Len(data) |->
            LET blk == (j - 1) \div 16
                src == (((j - 1) % 16) + 15) % 16
            IN  (data[blk * 16 + src + 1] + 512
                    - aeskey[src + 1] - aeskey[src + 17]) % 256])

\* ---- collaborators outside bip38.py ---------------------------------------
\* format(PrivateKey(k).uncompressed.address, "BTC"): an ASCII text that is a
\* function of the key alone
AddressOf(keyhex) ==
    LET st == Mix(keyhex, 1, 11)
    IN  [i \in 1..9 |-> IF i = 1 THEN 49 ELSE 65 + (((st \div i) + i) % 26)]

\* compat_bytes(text, encoding): the bytes of a text (texts are kept as
\* their encoded bytes)
compat_bytes(text) == text

\* format(Base58(hex), "encwif"): the Base58 text of the bytes
base58encode(hex) == [alphabet |-> "base58", number |-> unhexlify(hex)]

\* base58decode(text): the hex text of the decoded bytes, no checksum test
base58decode(text) == hexlify(text.number)

\* ---- module initialisation, lines 23-45 ----------------------------------
Str_scrypt == <<"s", "c", "r", "y", "p", "t">>
Str_pylibscrypt == <<"p", "y", "l", "i", "b">> \o Str_scrypt

\* os.environ.get('SCRYPT_MODULE', None)
NoneValue == [set |-> FALSE, val |-> <<>>]
StrValue(v) == [set |-> TRUE, val |-> v]
EnvValues ==
    {NoneValue, StrValue(<<>>), StrValue(Str_scrypt), StrValue(Str_pylibscrypt),
     StrValue(<<"f", "o", "o">>), StrValue(Str_scrypt \o <<"2">>)}

\* sub in s
Contains(sub, sq) ==
    \E i \in 0..(Len(sq) - Len(sub)) : SubSeq(sq, i + 1, i + Len(sub)) = sub

ModuleInit(env, installed) ==
    IF ~(env.set /\ env.val # <<>>)
    THEN IF "scrypt" \in installed
         THEN [SCRYPT_MODULE |-> StrValue(Str_scrypt), scrypt |-> "scrypt",
               mstate |-> "loaded"]
         ELSE IF "pylibscrypt" \in installed
         THEN [SCRYPT_MODULE |-> StrValue(Str_pylibscrypt),
               scrypt |-> "pylibscrypt", mstate |-> "loaded"]
         ELSE [SCRYPT_MODULE |-> env, scrypt |-> "unbound",
               mstate |-> "ImportError"]
    ELSE IF Contains(Str_pylibscrypt, env.val)
    THEN IF "pylibscrypt" \in installed
         THEN [SCRYPT_MODULE |-> env, scrypt |-> "pylibscrypt",
               mstate |-> "loaded"]
         ELSE [SCRYPT_MODULE |-> env, scrypt |-> "unbound",
               mstate |-> "ImportError"]
    ELSE IF Contains(Str_scrypt, env.val)
    THEN IF "scrypt" \in installed
         THEN [SCRYPT_MODULE |-> env, scrypt |-> "scrypt", mstate |-> "loaded"]
         ELSE [SCRYPT_MODULE |-> env, scrypt |-> "unbound",
               mstate |-> "ImportError"]
    ELSE [SCRYPT_MODULE |-> env, scrypt |-> "unbound", mstate |-> "loaded"]

\* ---- key derivation, lines 76-84 and 119-127 ------------------------------
\* The two interpreter branches of lines 77-80 make the same call: str() of a
\* byte string is that string.  A name bound to the other module has no such
\* function.
DeriveKey(mod, binding, pw, saltbytes) ==
    IF mod = StrValue(Str_scrypt)
    THEN IF binding = "scrypt"
         THEN Ok(ScryptKDF(pw, saltbytes, 16384, 8, 8))
         ELSE Err("AttributeError")
    ELSE IF mod = StrValue(Str_pylibscrypt)
    THEN IF binding = "pylibscrypt"
         THEN Ok(ScryptKDF(compat_bytes(pw), saltbytes, 16384, 8, 8))
         ELSE Err("AttributeError")
    ELSE Err("ValueError: No scrypt module loaded")

SaltOfNonce(text) == Slice(Sha256(Sha256(text \o <<calls>>)), 0, 4)
\* hashlib.sha256(hashlib.sha256(a).digest()).digest()[0:4], lines 75, 149
SaltOf(text) == Slice(Sha256(Sha256(text)), 0, 4)

\* ---- the frame of one call ------------------------------------------------
NoText == [alphabet |-> "base58", number |-> <<>>]

EmptyFrame ==
    [pc |-> "idle", op |-> "none",
     privkey |-> <<>>, passphrase |-> <<>>, encrypted_privkey |-> NoText,
     d |-> <<>>, flagbyte |-> <<>>, salt |-> <<>>, key |-> <<>>,
     encryptedhalf1 |-> <<>>, encryptedhalf2 |-> <<>>,
     decryptedhalf1 |-> <<>>, decryptedhalf2 |-> <<>>,
     privraw |-> <<>>, wif |-> <<>>, saltverify |-> <<>>,
     payload |-> <<>>, checksum |-> <<>>,
     exc |-> "none", returned |-> FALSE, ret |-> <<>>]

Raise(fr, err) == [fr EXCEPT !.pc = "done", !.exc = err]

\* ---- _encrypt_xor, lines 55-59 --------------------------------------------
EncryptXorCipherFirst(a, b, cipherkey) ==
    LET ct == EcbEncrypt(cipherkey, unhexlify(a))
    IN  IF ct.exc # "none" THEN ct
        ELSE Ok(unhexlify(FormatHex(
                 IntXor(IntFromHex(hexlify(ct.val)), IntFromHex(hexlify(b))), 32)))
EncryptXor(a, b, cipherkey) ==
    IF a = <<>> \/ b = <<>> THEN Err("ValueError")
    ELSE LET xored == FormatHex(IntXor(IntFromHex(a), IntFromHex(hexlify(b))), 32)
         IN  IF Len(xored) % 2 = 1 THEN Err("binascii.Error")
             ELSE EcbEncrypt(cipherkey, unhexlify(xored))

\* ---- encrypt, lines 62-97 -------------------------------------------------
PayloadFlagLast(sb, h1, h2) == <<1, 66>> \o sb \o <<192>> \o h1 \o h2
\* lines 92-93
Payload(sb, h1, h2) == <<1, 66, 192>> \o sb \o h1 \o h2

\* line 95
Checksum(pl) == Slice(Sha256(Sha256(pl)), 0, 4)

EncryptRun(mod, binding, privkey, passphrase) ==
    LET f0 == [EmptyFrame EXCEPT !.op = "encrypt", !.privkey = privkey,
                                 !.passphrase = passphrase]
        privkeyhex == privkey
        addr == AddressOf(privkey)
        salt == SaltOf(compat_bytes(addr))
        k == DeriveKey(mod, binding, passphrase, salt)
        key == k.val
        derived_half1 == Slice(key, 0, 32)
        derived_half2 == SliceFrom(key, 32)
        encrypted_half1 ==
            EncryptXor(Slice(privkeyhex, 0, 32), Slice(derived_half1, 0, 16),
                       derived_half2)
        encrypted_half2 ==
            EncryptXor(SliceFrom(privkeyhex, 32), SliceFrom(derived_half1, 16),
                       derived_half2)
        payload == Payload(salt, encrypted_half1.val, encrypted_half2.val)
        checksum == Checksum(payload)
        privatekey == hexlify(payload \o checksum)
        f1 == [f0 EXCEPT !.salt = salt]
    IN  IF k.exc # "none" THEN Raise(f1, k.exc)
        ELSE IF encrypted_half1.exc # "none"
        THEN Raise([f1 EXCEPT !.key = key], encrypted_half1.exc)
        ELSE IF encrypted_half2.exc # "none"
        THEN Raise([f1 EXCEPT !.key = key], encrypted_half2.exc)
        ELSE [f1 EXCEPT !.pc = "done", !.key = key,
                        !.encryptedhalf1 = encrypted_half1.val,
                        !.encryptedhalf2 = encrypted_half2.val,
                        !.payload = payload, !.checksum = checksum,
                        !.returned = TRUE, !.ret = privatekey]

\* ---- decrypt, lines 100-153 -----------------------------------------------
\* lines 112-115
DecParse(encrypted_privkey, passphrase) ==
    LET d0 == unhexlify(base58decode(encrypted_privkey))
        d1 == SliceFrom(d0, 2)
    IN  [EmptyFrame EXCEPT !.pc = "parsed", !.op = "decrypt",
                           !.encrypted_privkey = encrypted_privkey,
                           !.passphrase = passphrase,
                           !.flagbyte = Slice(d1, 0, 1), !.d = SliceFrom(d1, 1)]

\* lines 116-118; the assert statement raises AssertionError
DecFlagUnchecked(fr) ==
    [fr EXCEPT !.pc = "flagchecked", !.salt = Slice(fr.d, 0, 4),
              !.d = SliceDropLast(fr.d, 4, 4)]
DecFlag(fr) ==
    IF fr.flagbyte # <<192>> THEN Raise(fr, "AssertionError")
    ELSE [fr EXCEPT !.pc = "flagchecked", !.salt = Slice(fr.d, 0, 4),
                   !.d = SliceDropLast(fr.d, 4, 4)]

\* lines 119-127
DecDerive(mod, binding, fr) ==
    LET k == DeriveKey(mod, binding, fr.passphrase, fr.salt)
    IN  IF k.exc # "none" THEN Raise(fr, k.exc)
        ELSE [fr EXCEPT !.pc = "keyderived", !.key = k.val]

\* lines 128-144
DecBlocks(fr) ==
    LET derivedhalf1 == Slice(fr.key, 0, 32)
        derivedhalf2 == Slice(fr.key, 32, 64)
        encryptedhalf1 == Slice(fr.d, 0, 16)
        encryptedhalf2 == Slice(fr.d, 16, 32)
        decryptedhalf2 == EcbDecrypt(derivedhalf2, encryptedhalf2)
        decryptedhalf1 == EcbDecrypt(derivedhalf2, encryptedhalf1)
        privraw == decryptedhalf1.val \o decryptedhalf2.val
        privhex == FormatHex(IntXor(IntFromHex(hexlify(privraw)),
                                    IntFromHex(hexlify(derivedhalf1))), 64)
        f1 == [fr EXCEPT !.encryptedhalf1 = encryptedhalf1,
                        !.encryptedhalf2 = encryptedhalf2]
    IN  IF decryptedhalf2.exc # "none" THEN Raise(f1, decryptedhalf2.exc)
        ELSE IF decryptedhalf1.exc # "none" THEN Raise(f1, decryptedhalf1.exc)
        ELSE IF privraw = <<>> THEN Raise(f1, "ValueError")
        ELSE [f1 EXCEPT !.pc = "decrypted",
                        !.decryptedhalf1 = decryptedhalf1.val,
                        !.decryptedhalf2 = decryptedhalf2.val,
                        !.privraw = privhex, !.wif = privhex]

\* lines 145-153
DecVerifyLenient(fr) ==
    LET saltverify == SaltOf(compat_bytes(AddressOf(fr.wif)))
    IN  [fr EXCEPT !.pc = "done", !.saltverify = saltverify,
                  !.returned = TRUE, !.ret = fr.wif]
DecVerifyLeaky(fr) ==
    LET saltverify == SaltOf(compat_bytes(AddressOf(fr.wif)))
        f1 == [fr EXCEPT !.saltverify = saltverify, !.ret = fr.wif]
    IN  IF saltverify # fr.salt THEN Raise(f1, "SaltException")
        ELSE [f1 EXCEPT !.pc = "done", !.returned = TRUE]
DecVerify(fr) ==
    LET saltverify == SaltOf(compat_bytes(AddressOf(fr.wif)))
        f1 == [fr EXCEPT !.saltverify = saltverify]
    IN  IF saltverify # fr.salt THEN Raise(f1, "SaltException")
        ELSE [f1 EXCEPT !.pc = "done", !.returned = TRUE, !.ret = fr.wif]

DecStep(mod, binding, fr) ==
    IF fr.pc = "parsed" THEN DecFlag(fr)
    ELSE IF fr.pc = "flagchecked" THEN DecDerive(mod, binding, fr)
    ELSE IF fr.pc = "keyderived" THEN DecBlocks(fr)
    ELSE IF fr.pc = "decrypted" THEN DecVerify(fr)
    ELSE fr

\* decrypt as one call: the steps in order until one of them ends the call
DecryptRun(mod, binding, encrypted_privkey, passphrase) ==
    DecStep(mod, binding,
        DecStep(mod, binding,
            DecStep(mod, binding,
                DecStep(mod, binding, DecParse(encrypted_privkey, passphrase)))))

\* ---- inputs ---------------------------------------------------------------
\* private keys as 64 hex digits; even ones start both halves with zeros
KeyOf(i) ==
    [j \in 1..64 |->
        IF i % 2 = 0 /\ (j <= 3 \/ j \in 33..35) THEN 0
        ELSE ((i + 3) * j + i) % 15]
Keys == {KeyOf(i) : i \in 0..MaxKey}

\* passphrases as UTF-8 bytes: NUL and "a"
Passphrases == UNION {[1..n -> {0, 97}] : n \in 0..MaxPassLen}

NoTamper == [kind |-> "none", n |-> 0]
Tampers ==
    {NoTamper}
    \cup {[kind |-> "flag", n |-> v] : v \in {0, 224}}
    \cup {[kind |-> "checksum", n |-> 1]}
    \cup {[kind |-> "extend", n |-> e] : e \in 1..MaxExtra}
    \cup {[kind |-> "truncate", n |-> t] : t \in {1, 16, 36, 40}}

Tamper(tm, bs) ==
    IF tm.kind = "flag" THEN [bs EXCEPT ![3] = tm.n]
    ELSE IF tm.kind = "checksum" THEN [bs EXCEPT ![Len(bs)] = (@ + tm.n) % 256]
    ELSE IF tm.kind = "extend" THEN bs \o Zeros(tm.n)
    ELSE IF tm.kind = "truncate" THEN SubSeq(bs, 1, Len(bs) - tm.n)
    ELSE bs

\* an encoded text in circulation: the output of encrypt(K, P) of a working
\* installation, possibly altered
EncodedInput(K, P, t) ==
    LET e == EncryptRun(StrValue(Str_scrypt), "scrypt", K, P)
    IN  base58encode(hexlify(Tamper(t, unhexlify(e.ret))))

NoOrigin == [privkey |-> <<>>, passphrase |-> <<>>,
             tamper |-> [kind |-> "unset", n |-> 0]]
NoCall == [op |-> "none", privkey |-> <<>>, encrypted_privkey |-> NoText,
           passphrase |-> <<>>, exc |-> "none", returned |-> FALSE,
           ret |-> <<>>]

\* ---- state machine --------------------------------------------------------
Init ==
    /\ SCRYPT_MODULE \in EnvValues
    /\ scrypt = "unbound"
    /\ mstate = "start"
    /\ frame = EmptyFrame
    /\ origin = NoOrigin
    /\ watched = NoCall
    /\ last = NoCall
    /\ calls = 0

\* import of the module, lines 23-45
LoadModule ==
    /\ mstate = "start"
    /\ \E installed \in SUBSET {"scrypt", "pylibscrypt"} :
         LET r == ModuleInit(SCRYPT_MODULE, installed)
         IN  /\ SCRYPT_MODULE' = r.SCRYPT_MODULE
             /\ scrypt' = r.scrypt
             /\ mstate' = r.mstate
    /\ UNCHANGED <<frame, origin, watched, last, calls>>

\* encrypt(privkey, passphrase), lines 62-97
Encrypt(K, P) ==
    /\ mstate = "loaded"
    /\ frame.pc = "idle"
    /\ frame' = EncryptRun(SCRYPT_MODULE, scrypt, K, P)
    /\ origin' = NoOrigin
    /\ UNCHANGED <<SCRYPT_MODULE, scrypt, mstate, watched, last, calls>>

\* decrypt(encrypted_privkey, passphrase) entered, lines 112-115
DecryptCall(K, P1, t, P2) ==
    /\ mstate = "loaded"
    /\ frame.pc = "idle"
    /\ frame' = DecParse(EncodedInput(K, P1, t), P2)
    /\ origin' = [privkey |-> K, passphrase |-> P1, tamper |-> t]
    /\ UNCHANGED <<SCRYPT_MODULE, scrypt, mstate, watched, last, calls>>

\* lines 116-118
DecryptFlagCheck ==
    /\ frame.pc = "parsed"
    /\ frame' = DecFlag(frame)
    /\ UNCHANGED <<SCRYPT_MODULE, scrypt, mstate, origin, watched, last, calls>>

\* lines 119-127
DecryptDeriveKey ==
    /\ frame.pc = "flagchecked"
    /\ frame' = DecDerive(SCRYPT_MODULE, scrypt, frame)
    /\ UNCHANGED <<SCRYPT_MODULE, scrypt, mstate, origin, watched, last, calls>>

\* lines 128-144
DecryptBlocks ==
    /\ frame.pc = "keyderived"
    /\ frame' = DecBlocks(frame)
    /\ UNCHANGED <<SCRYPT_MODULE, scrypt, mstate, origin, watched, last, calls>>

\* lines 145-153
DecryptSaltVerify ==
    /\ frame.pc = "decrypted"
    /\ frame' = DecVerify(frame)
    /\ UNCHANGED <<SCRYPT_MODULE, scrypt, mstate, origin, watched, last, calls>>

\* the call has returned or raised: its frame is gone
Return ==
    /\ frame.pc = "done"
    /\ frame' = EmptyFrame
    /\ origin' = NoOrigin
    /\ UNCHANGED <<SCRYPT_MODULE, scrypt, mstate, watched, last, calls>>

Next ==
    \/ LoadModule
    \/ \E K \in Keys, P \in Passphrases : Encrypt(K, P)
    \/ \E K \in Keys, P1 \in Passphrases, t \in Tampers, P2 \in Passphrases :
         DecryptCall(K, P1, t, P2)
    \/ DecryptFlagCheck
    \/ DecryptDeriveKey
    \/ DecryptBlocks
    \/ DecryptSaltVerify
    \/ Return

Spec == Init /\ [][Next]_vars

\* ---- whole calls, one after another ---------------------------------------
\* what a caller sees of a finished call
Outcome(fr) ==
    [op |-> fr.op, privkey |-> fr.privkey,
     encrypted_privkey |-> fr.encrypted_privkey, passphrase |-> fr.passphrase,
     exc |-> fr.exc, returned |-> fr.returned, ret |-> fr.ret]

CallRecord(op, privkey, encrypted_privkey, passphrase) ==
    Outcome(IF op = "encrypt"
            THEN EncryptRun(SCRYPT_MODULE, scrypt, privkey, passphrase)
            ELSE DecryptRun(SCRYPT_MODULE, scrypt, encrypted_privkey, passphrase))

\* a call whose arguments and outcome are kept
ObservedEncrypt(K, P) ==
    /\ mstate = "loaded" /\ calls < MaxCalls /\ watched.op = "none"
    /\ watched' = CallRecord("encrypt", K, NoText, P)
    /\ calls' = calls + 1
    /\ UNCHANGED <<SCRYPT_MODULE, scrypt, mstate, frame, origin, last>>

ObservedDecrypt(K, P1, t, P2) ==
    /\ mstate = "loaded" /\ calls < MaxCalls /\ watched.op = "none"
    /\ watched' = CallRecord("decrypt", <<>>, EncodedInput(K, P1, t), P2)
    /\ calls' = calls + 1
    /\ UNCHANGED <<SCRYPT_MODULE, scrypt, mstate, frame, origin, last>>

\* any other call of encrypt or decrypt: its frame is gone when it ends and
\* it assigns no module global, so only the count of calls changes
OtherCall ==
    /\ mstate = "loaded" /\ calls < MaxCalls
    /\ calls' = calls + 1
    /\ UNCHANGED <<SCRYPT_MODULE, scrypt, mstate, frame, origin, watched, last>>

\* the kept call made again with the same arguments
RepeatedCall ==
    /\ mstate = "loaded" /\ calls < MaxCalls /\ watched.op # "none"
    /\ last' = CallRecord(watched.op, watched.privkey,
                          watched.encrypted_privkey, watched.passphrase)
    /\ calls' = calls + 1
    /\ UNCHANGED <<SCRYPT_MODULE, scrypt, mstate, frame, origin, watched>>

NextIso ==
    \/ LoadModule
    \/ \E K \in Keys, P \in Passphrases : ObservedEncrypt(K, P)
    \/ \E K \in Keys, P1 \in Passphrases, t \in Tampers, P2 \in Passphrases :
         ObservedDecrypt(K, P1, t, P2)
    \/ OtherCall
    \/ RepeatedCall

SpecIso == Init /\ [][NextIso]_vars

\* ---- properties -----------------------------------------------------------
\* the decoded bytes of the input of the decrypt in progress
Raw == frame.encrypted_privkey.number

\* SCRYPT_MODULE names one of the two backends the calls know
BackendSelected ==
    SCRYPT_MODULE \in {StrValue(Str_scrypt), StrValue(Str_pylibscrypt)}

DecryptDone == frame.op = "decrypt" /\ frame.pc = "done"

\* the errors that report a malformed input
FormatErrors == {"AssertionError", "ValueError"}

\* bytewise exclusive-or of two byte strings of one length
ByteXor(u, v) ==
    [i \in 1..Len(u) |->
        16 * XorNib(u[i] \div 16, v[i] \div 16) + XorNib(u[i] % 16, v[i] % 16)]

\* C1: round trip: decrypt(encrypt(K, P), P) passes the salt check and
\* returns the 64 hex digits of K, leading zeros included, for every key and
\* passphrase, the empty passphrase included.
C1_RoundTrip ==
    (DecryptDone /\ BackendSelected /\ origin.tamper = NoTamper
        /\ origin.passphrase = frame.passphrase)
    => (frame.exc = "none" /\ frame.returned /\ frame.ret = origin.privkey
        /\ Len(frame.ret) = 64 /\ frame.saltverify = frame.salt)

C1_Witness ==
    /\ DecryptDone /\ BackendSelected /\ origin.tamper = NoTamper
    /\ origin.passphrase = frame.passphrase /\ frame.passphrase = <<>>
    /\ frame.returned /\ frame.ret = origin.privkey /\ Head(frame.ret) = 0

\* C2 as stated: for P1 # P2, decrypt(encrypt(K, P1), P2) fails with
\* SaltException and never returns a key.
C2_WrongPassphraseAlwaysFails ==
    (DecryptDone /\ BackendSelected /\ origin.tamper = NoTamper
        /\ origin.passphrase # frame.passphrase)
    => (frame.exc = "SaltException" /\ ~frame.returned)

\* C2 amended: for P1 # P2, decrypt(encrypt(K, P1), P2) fails with
\* SaltException unless the candidate key recovered under P2 has the address
\* salt embedded by encrypt (as when P1 and P2 derive the same key material);
\* only then is the candidate returned.
C2_WrongPassphraseFailsUnlessSaltAgrees ==
    (DecryptDone /\ BackendSelected /\ origin.tamper = NoTamper
        /\ origin.passphrase # frame.passphrase)
    => LET embedded == Slice(Sha256(Sha256(AddressOf(origin.privkey))), 0, 4)
       IN  \/ frame.exc = "SaltException" /\ ~frame.returned
              /\ Slice(Sha256(Sha256(AddressOf(frame.wif))), 0, 4) # embedded
           \/ frame.exc = "none" /\ frame.returned /\ frame.ret = frame.wif
              /\ Slice(Sha256(Sha256(AddressOf(frame.ret))), 0, 4) = embedded

C2_Witness ==
    /\ DecryptDone /\ BackendSelected /\ origin.tamper = NoTamper
    /\ origin.passphrase # frame.passphrase
    /\ frame.exc = "SaltException" /\ ~frame.returned

\* C3: a decoded input whose byte at offset 2 is not 0xC0 fails with the
\* assertion error before the passphrase or the rest of the input is used:
\* no salt is read, no key is derived, nothing is returned.
C3_FlagRejected ==
    (DecryptDone /\ Len(Raw) >= 3 /\ Raw[3] # 192)
    => (frame.exc = "AssertionError" /\ ~frame.returned
        /\ frame.salt = <<>> /\ frame.key = <<>> /\ frame.wif = <<>>)

C3_Witness ==
    /\ DecryptDone /\ Len(Raw) = 43 /\ Raw[3] = 0
    /\ frame.passphrase = origin.passphrase
    /\ frame.exc = "AssertionError"

\* C4: a decoded input whose length is not the fixed 43 bytes fails with a
\* format error; a longer input is never accepted.
C4_LengthValidated ==
    (DecryptDone /\ Len(Raw) # 43)
    => (~frame.returned /\ frame.exc \in FormatErrors)

\* C5: an input whose last 4 bytes are not the first 4 bytes of the double
\* SHA-256 of the bytes before them fails with a format error.
C5_OuterChecksumVerified ==
    (DecryptDone /\ Len(Raw) = 43
        /\ SubSeq(Raw, 40, 43) # Slice(Sha256(Sha256(SubSeq(Raw, 1, 39))), 0, 4))
    => (~frame.returned /\ frame.exc \in FormatErrors)

\* C6: decrypt goes through parse, flag check, key derivation, block
\* decryption and salt verification in this order; a key is returned only by
\* the salt verification when the salts agree, and a failing step ends the
\* call with nothing returned.
C6_NoPartialResult ==
    [][(frame'.op = "decrypt" /\ frame' # frame)
        => /\ \/ frame.pc = "idle" /\ frame'.pc = "parsed"
              \/ frame.pc = "parsed" /\ frame'.pc \in {"flagchecked", "done"}
              \/ frame.pc = "flagchecked" /\ frame'.pc \in {"keyderived", "done"}
              \/ frame.pc = "keyderived" /\ frame'.pc \in {"decrypted", "done"}
              \/ frame.pc = "decrypted" /\ frame'.pc = "done"
           /\ frame'.returned
                => (frame.pc = "decrypted" /\ frame'.exc = "none"
                    /\ frame'.saltverify = frame'.salt /\ frame'.ret = frame.wif)
           /\ frame'.exc # "none" => (frame'.pc = "done" /\ ~frame'.returned)
           /\ ~frame'.returned => frame'.ret = <<>>]_vars

C6_Witness ==
    /\ DecryptDone /\ frame.exc = "SaltException" /\ frame.wif # <<>>
    /\ ~frame.returned /\ frame.ret = <<>>

\* C7: encrypt returns 0x01 0x42 0xC0, the 4-byte salt of the key's address,
\* the two 16-byte encrypted halves and the 4-byte checksum of these 39
\* bytes; decrypt reads flag, salt and halves at the same offsets.
C7_PayloadLayout ==
    /\ (frame.op = "encrypt" /\ frame.returned)
        => LET b == unhexlify(frame.ret)
           IN  /\ Len(frame.ret) = 86 /\ Len(b) = 43
               /\ SubSeq(b, 1, 3) = <<1, 66, 192>>
               /\ SubSeq(b, 4, 7)
                    = Slice(Sha256(Sha256(AddressOf(frame.privkey))), 0, 4)
               /\ Len(frame.encryptedhalf1) = 16
               /\ Len(frame.encryptedhalf2) = 16
               /\ SubSeq(b, 8, 23) = frame.encryptedhalf1
               /\ SubSeq(b, 24, 39) = frame.encryptedhalf2
               /\ SubSeq(b, 40, 43)
                    = Slice(Sha256(Sha256(SubSeq(b, 1, 39))), 0, 4)
    /\ (frame.op = "decrypt" /\ Len(Raw) = 43)
        => /\ frame.pc # "idle" => frame.flagbyte = <<Raw[3]>>
           /\ frame.pc \in {"flagchecked", "keyderived", "decrypted"}
                => frame.salt = SubSeq(Raw, 4, 7)
           /\ frame.pc = "decrypted"
                => /\ frame.encryptedhalf1 = SubSeq(Raw, 8, 23)
                   /\ frame.encryptedhalf2 = SubSeq(Raw, 24, 39)

C7_Witness ==
    /\ frame.op = "decrypt" /\ frame.pc = "decrypted" /\ Len(Raw) = 43
    /\ origin.tamper = NoTamper
    /\ frame.encryptedhalf2 = SubSeq(Raw, 24, 39)

\* C8: whenever no backend the calls know is selected the import fails, and
\* after a successful import no call fails for want of a backend.
C8_BackendFailureOnlyAtImport ==
    /\ mstate = "loaded" => BackendSelected
    /\ frame.pc = "done"
        => frame.exc \notin {"ValueError: No scrypt module loaded",
                             "AttributeError"}

====
